---- MODULE Spec2Model ----
(***************************************************************************)
(* Model of holiman/vmstats (src/main.go): the fee-schedule resolver       *)
(* gasCost, the dataPoint arithmetic (Sub, totalGas, MilliSecondsPerMgas), *)
(* and the statCollection handlers collect, series and barchart.           *)
(*                                                                         *)
(* Machine integers keep their wrap-around behaviour but at a reduced      *)
(* width: uint64 is modelled as arithmetic modulo 2^WordBits and           *)
(* time.Duration (int64) as the two's-complement reading of the same       *)
(* words.  Every integer of the model is below 2^53, so the float64()      *)
(* conversions of the source are exact on the modelled range.              *)
(***************************************************************************)
EXTENDS Integers, Sequences, FiniteSets, TLC

VARIABLES data, out, args, ret

vars == <<data, out, args, ret>>

\* nil pointer / absent value (a record, so that it compares with records)
Nil == [nil |-> TRUE]

-----------------------------------------------------------------------------
(* Bounds of the model *)

\* width of the modelled machine word (uint64 / int64 in the source)
WordBits == 24

Word == 2 ^ WordBits

\* largest time.Duration of the modelled width
MaxDuration == (Word \div 2) - 1

-----------------------------------------------------------------------------
(* vm.OpCode values referenced by the source *)

STOP == 0
ADD == 1
MUL == 2
SUB == 3
DIV == 4
SDIV == 5
MOD == 6
SMOD == 7
ADDMOD == 8
MULMOD == 9
EXP == 10
SIGNEXTEND == 11
LT == 16
GT == 17
SLT == 18
SGT == 19
EQ == 20
ISZERO == 21
AND == 22
OR == 23
XOR == 24
NOT == 25
BYTE == 26
SHL == 27
SHR == 28
SAR == 29
SHA3 == 32
ADDRESS == 48
BALANCE == 49
ORIGIN == 50
CALLER == 51
CALLVALUE == 52
CALLDATALOAD == 53
CALLDATASIZE == 54
CALLDATACOPY == 55
CODESIZE == 56
CODECOPY == 57
GASPRICE == 58
EXTCODESIZE == 59
EXTCODECOPY == 60
RETURNDATASIZE == 61
RETURNDATACOPY == 62
EXTCODEHASH == 63
BLOCKHASH == 64
COINBASE == 65
TIMESTAMP == 66
NUMBER == 67
DIFFICULTY == 68
GASLIMIT == 69
POP == 80
MLOAD == 81
SLOAD == 84
SSTORE == 85
JUMP == 86
JUMPI == 87
PC == 88
MSIZE == 89
GAS == 90
JUMPDEST == 91
PUSH1 == 96
PUSH32 == 127
DUP1 == 128
DUP16 == 143
SWAP1 == 144
SWAP16 == 159
LOG0 == 160
LOG4 == 164
CALL == 241

\* vm.OpCode is a byte: the 256 operation identifiers
OpCodes == 0..255

-----------------------------------------------------------------------------
(* Gas constants of go-ethereum referenced by gasCost *)

GasQuickStep == 2
GasFastestStep == 3
GasFastStep == 5
GasMidStep == 8
GasSlowStep == 10
GasExtStep == 20
JumpdestGas == 1

\* params.MainnetChainConfig activation heights
EIP150Block == 2463000
EIP158Block == 2675000
ConstantinopleBlock == 7280000

GasTableHomestead ==
    [ExtcodeSize |-> 20, ExtcodeCopy |-> 20, ExtcodeHash |-> 0,
     Balance |-> 20, SLoad |-> 50, Calls |-> 40]

GasTableEIP150 ==
    [ExtcodeSize |-> 700, ExtcodeCopy |-> 700, ExtcodeHash |-> 0,
     Balance |-> 400, SLoad |-> 200, Calls |-> 700]

GasTableEIP158 ==
    [ExtcodeSize |-> 700, ExtcodeCopy |-> 700, ExtcodeHash |-> 0,
     Balance |-> 400, SLoad |-> 200, Calls |-> 700]

GasTableConstantinople ==
    [ExtcodeSize |-> 700, ExtcodeCopy |-> 700, ExtcodeHash |-> 400,
     Balance |-> 400, SLoad |-> 200, Calls |-> 700]

\* ChainConfig.isForked: the fork block is configured and s <= head
isForked(s, head) == s <= head

IsEIP150_strict(num) == EIP150Block < num

IsEIP150(num) == isForked(EIP150Block, num)

IsEIP158(num) == isForked(EIP158Block, num)

IsConstantinople(num) == isForked(ConstantinopleBlock, num)

\* mutant: the Constantinople table is never selected
gasTable_noConstantinople(blnum) ==
    IF IsEIP158(blnum) THEN GasTableEIP158
    ELSE IF IsEIP150(blnum) THEN GasTableEIP150
    ELSE GasTableHomestead

\* gt: Homestead, overwritten by each later upgrade that is active at blnum
gasTable(blnum) ==
    IF IsConstantinople(blnum) THEN GasTableConstantinople
    ELSE IF IsEIP158(blnum) THEN GasTableEIP158
    ELSE IF IsEIP150(blnum) THEN GasTableEIP150
    ELSE GasTableHomestead

\* first switch of gasCost: the operations with a fixed cost
fixedCostOps ==
    {STOP, ADD, SUB, LT, GT, SLT, SGT, EQ, ISZERO, AND, OR, XOR, NOT, BYTE,
     MUL, DIV, SDIV, MOD, SMOD, SIGNEXTEND, ADDMOD, MULMOD, JUMP,
     ADDRESS, ORIGIN, CALLER, CALLVALUE, CALLDATASIZE, CODESIZE, GASPRICE,
     COINBASE, TIMESTAMP, NUMBER, DIFFICULTY, GASLIMIT, POP, PC, MSIZE, GAS,
     BLOCKHASH, JUMPI, JUMPDEST}

fixedCost(op) ==
    CASE op = STOP -> 0
      [] op \in {ADD, SUB, LT, GT, SLT, SGT, EQ, ISZERO, AND, OR, XOR, NOT,
                 BYTE} -> GasFastestStep
      [] op \in {MUL, DIV, SDIV, MOD, SMOD, SIGNEXTEND} -> GasFastStep
      [] op \in {ADDMOD, MULMOD, JUMP} -> GasMidStep
      [] op \in {ADDRESS, ORIGIN, CALLER, CALLVALUE, CALLDATASIZE, CODESIZE,
                 GASPRICE, COINBASE, TIMESTAMP, NUMBER, DIFFICULTY, GASLIMIT,
                 POP, PC, MSIZE, GAS} -> GasQuickStep
      [] op = BLOCKHASH -> GasExtStep
      [] op = JUMPI -> GasSlowStep
      [] op = JUMPDEST -> JumpdestGas

\* mutant: the range test leaves out the first and the last identifier
inRange_exclusive(op, lo, hi) == op > lo /\ op < hi

\* op >= lo && op <= hi
inRange(op, lo, hi) == op >= lo /\ op <= hi

\* mutant: the shift operations cost GasFastestStep at every height
shiftCost_always(blnum) == GasFastestStep

\* case vm.SHL, vm.SHR, vm.SAR
shiftCost(blnum) == IF IsConstantinople(blnum) THEN GasFastestStep ELSE 0

\* second switch of gasCost: the operations resolved with the gas table
tableCost(op, blnum) ==
    LET gt == gasTable(blnum)
    IN  CASE op = SLOAD -> gt.SLoad
          [] op = EXTCODESIZE -> gt.ExtcodeSize
          [] op = BALANCE -> gt.Balance
          [] op = EXTCODEHASH -> gt.ExtcodeHash
          [] op \in {SHL, SHR, SAR} -> shiftCost(blnum)
          [] op = CALL -> gt.Calls
          [] OTHER -> 0

gasCost(op, blnum) ==
    IF op \in fixedCostOps THEN fixedCost(op)
    ELSE IF inRange(op, PUSH1, PUSH32) THEN GasFastestStep
    ELSE IF inRange(op, SWAP1, SWAP16) THEN GasFastestStep
    ELSE IF inRange(op, DUP1, DUP16) THEN GasFastestStep
    ELSE tableCost(op, blnum)

-----------------------------------------------------------------------------
(* Machine arithmetic of the source at the modelled width *)

\* a uint64 result: the value modulo 2^WordBits
U64(x) == x % Word

\* an int64 (time.Duration) result: two's complement of the same word
I64(x) == LET m == x % Word IN IF m >= Word \div 2 THEN m - Word ELSE m

\* uint64 product a * k for a word a and a factor k < 2^10, computed on the
\* two halves of a so that no intermediate value exceeds 32 bits
mulU64(a, k) ==
    LET hi == a \div 4096
        lo == a % 4096
    IN  ((((hi * k) % (Word \div 4096)) * 4096) + lo * k) % Word

\* int64 product k * d of a time.Duration d
mulI64(k, d) == I64(mulU64(U64(d), k))

\* float64 values are kept as the pair of the converted operands of the
\* division that produced them; den = 0 is the +Inf/-Inf/NaN of a division
\* by zero, and float64(0) is 0/1
float64(x) == [num |-> x, den |-> 1]

fdiv(a, b) == [num |-> a.num, den |-> b.num]

\* the product x * y of two naturals below 2^26 as <<high, low>> in base
\* 2^24, computed on 13-bit halves
bigProd(x, y) ==
    LET xh == x \div 4096
        xl == x % 4096
        yh == y \div 4096
        yl == y % 4096
        mid == xh * yl + xl * yh
        low == (mid % 4096) * 4096 + xl * yl
    IN  <<xh * yh + (mid \div 4096) + (low \div 16777216), low % 16777216>>

bigLess(p, q) == p[1] < q[1] \/ (p[1] = q[1] /\ p[2] < q[2])

isNaN(a) == a.den = 0 /\ a.num = 0

\* the float64 comparison a > b (false when either side is NaN)
fgreater(a, b) ==
    IF isNaN(a) \/ isNaN(b) THEN FALSE
    ELSE IF a.den = 0 THEN
        IF a.num > 0 THEN ~(b.den = 0 /\ b.num > 0) ELSE FALSE
    ELSE IF b.den = 0 THEN b.num < 0
    ELSE IF a.num >= 0 /\ b.num < 0 THEN TRUE
    ELSE IF a.num < 0 /\ b.num >= 0 THEN FALSE
    ELSE IF a.num >= 0
         THEN bigLess(bigProd(b.num, a.den), bigProd(a.num, b.den))
         ELSE bigLess(bigProd(0 - a.num, b.den), bigProd(0 - b.num, a.den))

-----------------------------------------------------------------------------
(* type dataPoint struct { op, blockNumber, count, execTime } *)

dataPoint(op, blockNumber, count, execTime) ==
    [op |-> op, blockNumber |-> blockNumber, count |-> count,
     execTime |-> execTime]

gas(dp) == gasCost(dp.op, dp.blockNumber)

totalGas(dp) == mulU64(dp.count, gas(dp))

\* mutant: no guard against a zero totalGas
MilliSecondsPerMgas_unguarded(dp) ==
    fdiv(float64(mulI64(1000, dp.execTime)), float64(mulU64(totalGas(dp), 1000)))

MilliSecondsPerMgas(dp) ==
    IF totalGas(dp) = 0
    THEN float64(0)
    ELSE fdiv(float64(mulI64(1000, dp.execTime)),
              float64(mulU64(totalGas(dp), 1000)))

\* mGasPerSec of the earlier generation of the program: no guard on execTime
mGasPerSec(dp) ==
    fdiv(float64(mulU64(totalGas(dp), 1000)), float64(dp.execTime))

\* mutant: the subtraction is taken the wrong way round
Sub_reversed(dp, prev) ==
    IF prev = Nil
    THEN dp
    ELSE [blockNumber |-> dp.blockNumber,
          execTime |-> I64(prev.execTime - dp.execTime),
          count |-> U64(prev.count - dp.count),
          op |-> dp.op]

\* mutant: a nil prev yields an empty datapoint instead of dp
Sub_nilZero(dp, prev) ==
    IF prev = Nil
    THEN [blockNumber |-> dp.blockNumber, execTime |-> 0, count |-> 0,
          op |-> dp.op]
    ELSE [blockNumber |-> dp.blockNumber,
          execTime |-> I64(dp.execTime - prev.execTime),
          count |-> U64(dp.count - prev.count),
          op |-> dp.op]

Sub(dp, prev) ==
    IF prev = Nil
    THEN dp
    ELSE [blockNumber |-> dp.blockNumber,
          execTime |-> I64(dp.execTime - prev.execTime),
          count |-> U64(dp.count - prev.count),
          op |-> dp.op]

-----------------------------------------------------------------------------
(* type statCollection: data maps a height to a map from OpCode to dataPoint *)

\* type opMeter struct { Num, Time }
opMeter(Num, Time) == [Num |-> Num, Time |-> Time]

\* json.Unmarshal(data, &m) with var m [256]opMeter: an input that is no JSON
\* array of counter records is a decode error (Nil); of a JSON array, the
\* elements beyond the 256th are dropped and the slots of m that the array
\* does not reach keep the zero opMeter
Unmarshal(input) ==
    IF ~input.valid
    THEN Nil
    ELSE [i \in OpCodes |->
            IF i < input.len
            THEN (IF i \in DOMAIN input.vary THEN input.vary[i] ELSE input.bg)
            ELSE opMeter(0, 0)]

\* mutant: only the operations with a non-zero count get a datapoint
collected_nonZeroOnly(blnum, m) ==
    [op \in {o \in OpCodes : m[o].Num > 0} |->
        [op |-> op, blockNumber |-> blnum % Word, count |-> m[op].Num,
         execTime |-> m[op].Time]]

\* the snapshot collect stores under blnum for the decoded array m
collected(blnum, m) ==
    [op \in OpCodes |-> dataPoint(op, U64(blnum), m[op].Num, m[op].Time)]

\* mutant: the entry of the height is created before the input is decoded
collect_createsEntry(stats, blnum, input) ==
    LET m == Unmarshal(input)
    IN  IF m = Nil
        THEN [err |-> TRUE, data |-> (blnum :> << >>) @@ stats]
        ELSE [err |-> FALSE, data |-> (blnum :> collected(blnum, m)) @@ stats]

\* stats.collect(blnum, data): the error returned and the dataset afterwards
collect(stats, blnum, input) ==
    LET m == Unmarshal(input)
    IN  IF m = Nil
        THEN [err |-> TRUE, data |-> stats]
        ELSE [err |-> FALSE, data |-> (blnum :> collected(blnum, m)) @@ stats]

\* mutant: a height that is absent reads as a snapshot of empty datapoints
lookup_defaulted(stats, number) ==
    IF number \in DOMAIN stats THEN stats[number]
    ELSE [op \in OpCodes |->
            [op |-> op, blockNumber |-> number, count |-> 0, execTime |-> 0]]

\* the map lookups stats.data[number] and block[op]: nil when the key is absent
lookup(stats, number) == IF number \in DOMAIN stats THEN stats[number] ELSE Nil

pointOf(block, op) ==
    IF block = Nil THEN Nil
    ELSE IF op \in DOMAIN block THEN block[op] ELSE Nil

min(S) == CHOOSE x \in S : \A y \in S : x <= y

\* the keys of stats.data in ascending order (sort.Ints)
RECURSIVE sortInts(_)
sortInts(S) == IF S = {} THEN << >> ELSE <<min(S)>> \o sortInts(S \ {min(S)})

\* mutant: the heights are walked in descending order
numbers_descending(stats) ==
    LET asc == sortInts(DOMAIN stats)
    IN  [i \in 1..Len(asc) |-> asc[Len(asc) + 1 - i]]

numbers(stats) == sortInts(DOMAIN stats)

\* the functions series is called with as yFunc
yFunc(name, point) ==
    IF name = "count" THEN float64(point.count) ELSE MilliSecondsPerMgas(point)

\* mutant: the threshold test admits a delta equal to the threshold
aboveThreshold_inclusive(modDp) == modDp.count >= 500

\* if modDp.count > 500
aboveThreshold(modDp) == modDp.count > 500

\* mutant: a height below fromBlock is skipped but kept as the baseline
RECURSIVE seriesLoop_baselineBelow(_, _, _, _, _, _, _)
seriesLoop_baselineBelow(stats, nums, i, op, fromBlock, fname, st) ==
    IF i > Len(nums) THEN st
    ELSE IF nums[i] < fromBlock
         THEN seriesLoop_baselineBelow(stats, nums, i + 1, op, fromBlock, fname,
                 [prevBlock |-> stats[nums[i]], xseries |-> st.xseries,
                  yseries |-> st.yseries])
    ELSE LET block == stats[nums[i]]
             modDp == Sub(block[op], st.prevBlock[op])
             emit == st.prevBlock # Nil /\ aboveThreshold(modDp)
         IN  seriesLoop_baselineBelow(stats, nums, i + 1, op, fromBlock, fname,
                 [prevBlock |-> block,
                  xseries |-> IF emit
                              THEN Append(st.xseries, float64(nums[i]))
                              ELSE st.xseries,
                  yseries |-> IF emit
                              THEN Append(st.yseries, yFunc(fname, modDp))
                              ELSE st.yseries])

\* the loop of series over the sorted heights, from index i on
RECURSIVE seriesLoop(_, _, _, _, _, _, _)
seriesLoop(stats, nums, i, op, fromBlock, fname, st) ==
    IF i > Len(nums) THEN st
    ELSE IF nums[i] < fromBlock
         THEN seriesLoop(stats, nums, i + 1, op, fromBlock, fname, st)
    ELSE LET block == stats[nums[i]]
             modDp == Sub(block[op], st.prevBlock[op])
             emit == st.prevBlock # Nil /\ aboveThreshold(modDp)
         IN  seriesLoop(stats, nums, i + 1, op, fromBlock, fname,
                 [prevBlock |-> block,
                  xseries |-> IF emit
                              THEN Append(st.xseries, float64(nums[i]))
                              ELSE st.xseries,
                  yseries |-> IF emit
                              THEN Append(st.yseries, yFunc(fname, modDp))
                              ELSE st.yseries])

series(stats, op, fromBlock, fname) ==
    LET st == seriesLoop(stats, numbers(stats), 1, op, fromBlock, fname,
                         [prevBlock |-> Nil, xseries |-> << >>,
                          yseries |-> << >>])
    IN  [xseries |-> st.xseries, yseries |-> st.yseries]

\* var zero = &dataPoint{blockNumber: new(big.Int)}
zero == dataPoint(0, 0, 0, 0)

\* dpStart of the loop of barchart: firstStat[op], or zero when it is nil
dpStartOf(firstStat, op) ==
    IF pointOf(firstStat, op) = Nil THEN zero ELSE pointOf(firstStat, op)

\* mutant: the exclusion also drops an operation executed once per block
excluded_atLeast(dpStart, dpEnd) ==
    LET nBlocks == U64(dpEnd.blockNumber - dpStart.blockNumber)
        nExecs == U64(dpEnd.count - dpStart.count)
    IN  nBlocks >= nExecs

\* exclude those that are executed less than once per block
excluded(dpStart, dpEnd) ==
    LET nBlocks == U64(dpEnd.blockNumber - dpStart.blockNumber)
        nExecs == U64(dpEnd.count - dpStart.count)
    IN  nBlocks > nExecs

\* the body of the loop of barchart appends a value for op
appends(firstStat, lastStat, op) ==
    LET dpStart == dpStartOf(firstStat, op)
        dpEnd == pointOf(lastStat, op)
    IN  ~excluded(dpStart, dpEnd) /\ dpEnd.count > 0

\* (collect and zero always set blockNumber, so the nil test on the block
\* numbers never skips an operation)
\* the loop of barchart, for op := vm.OpCode(0); op < 255; op++: err is the
\* return from the loop at an operation without end datapoint, vals are the
\* values appended, in the order of the loop, and modDps the deltas they are
\* computed from
barchartLoop(firstStat, lastStat) ==
    LET loopOps == [i \in 1..255 |-> i - 1]
        missing(op) == pointOf(lastStat, op) = Nil
        appended(op) == appends(firstStat, lastStat, op)
        modDpOf(op) == Sub(pointOf(lastStat, op), dpStartOf(firstStat, op))
    IN  IF SelectSeq(loopOps, missing) # << >>
        THEN [err |-> TRUE, vals |-> << >>, modDps |-> << >>]
        ELSE LET ops == SelectSeq(loopOps, appended)
             IN  [err |-> FALSE,
                  vals |-> [k \in 1..Len(ops) |->
                              [Value |-> MilliSecondsPerMgas(modDpOf(ops[k])),
                               Label |-> [op |-> ops[k],
                                          gas |-> gasCost(ops[k],
                                              modDpOf(ops[k]).blockNumber)]]],
                  modDps |-> [k \in 1..Len(ops) |-> modDpOf(ops[k])]]

\* the orders sort.Slice may leave vals in: sort.Slice is not stable, so every
\* arrangement of vals in which no later value is greater than an earlier one
\* (built front to back: the first value is one that no remaining value is
\* greater than, then the same for the rest)
RECURSIVE arrangements(_, _)
arrangements(vals, S) ==
    IF S = {} THEN {<< >>}
    ELSE UNION {{<<vals[i]>> \o rest : rest \in arrangements(vals, S \ {i})} :
                   i \in {k \in S :
                            \A j \in S :
                               ~fgreater(vals[j].Value, vals[k].Value)}}

sortedOrders(vals) == arrangements(vals, 1..Len(vals))

\* if len(vals) > 25 { vals = vals[:25] }
top25(vals) == IF Len(vals) > 25 THEN SubSeq(vals, 1, 25) ELSE vals

\* the number of windows barcharts makes a bar chart for: barch < 7
NumWindows == 7

\* the loop of barcharts over the windows, from window barch on: the windows
\* it has made a chart for; the first window whose barchart returns an error
\* ends the loop (break). Rendering and writing the chart are taken to
\* succeed.
RECURSIVE barchartsLoop(_, _)
barchartsLoop(stats, barch) ==
    IF barch >= NumWindows THEN << >>
    ELSE IF barchartLoop(lookup(stats, barch * 1000000),
                         lookup(stats, (barch + 1) * 1000000)).err
         THEN << >>
         ELSE <<barch>> \o barchartsLoop(stats, barch + 1)

-----------------------------------------------------------------------------
(* Specification of the fee-schedule resolver: Init draws (op, blnum),      *)
(* the action applies gasCost.                                              *)

GasHeights ==
    {0, 1150000, EIP150Block - 1, EIP150Block, EIP150Block + 1,
     EIP158Block - 1, EIP158Block, EIP158Block + 1, 4370000,
     ConstantinopleBlock - 1, ConstantinopleBlock, ConstantinopleBlock + 1,
     Word - 1}

InitGas ==
    /\ data = << >>
    /\ out = Nil
    /\ args \in [fn : {"gasCost"}, op : OpCodes, blnum : GasHeights]
    /\ ret = Nil

CallGasCost ==
    /\ args # Nil
    /\ args.fn = "gasCost"
    /\ ret = Nil
    /\ ret' = [val |-> gasCost(args.op, args.blnum)]
    /\ UNCHANGED <<data, out, args>>

NextGas == CallGasCost

SpecGas == InitGas /\ [][NextGas]_vars

gasCostReturned == args # Nil /\ args.fn = "gasCost" /\ ret # Nil

-----------------------------------------------------------------------------
(* Claims about gasCost, checked under SpecGas *)

\* C6: gasCost(SLOAD, h) is 50 at every height before the EIP150 activation
\* height 2463000 and 200 at every height at or after it (also at and after
\* the EIP158 and Constantinople activations).
C6_SLoadCost ==
    (gasCostReturned /\ args.op = SLOAD) =>
        ret.val = (IF args.blnum < 2463000 THEN 50 ELSE 200)

C6_Witness ==
    /\ gasCostReturned
    /\ args.op = SLOAD
    /\ args.blnum = 2463000
    /\ ret.val = 200

\* the fee table of the latest upgrade active at height h, stated by ranges
LatestTableEntry(op, h) ==
    LET t == CASE h < EIP150Block -> GasTableHomestead
               [] h >= EIP150Block /\ h < EIP158Block -> GasTableEIP150
               [] h >= EIP158Block /\ h < ConstantinopleBlock -> GasTableEIP158
               [] h >= ConstantinopleBlock -> GasTableConstantinople
    IN  CASE op = SLOAD -> t.SLoad
          [] op = EXTCODESIZE -> t.ExtcodeSize
          [] op = EXTCODECOPY -> t.ExtcodeCopy
          [] op = BALANCE -> t.Balance
          [] op = EXTCODEHASH -> t.ExtcodeHash
          [] op = CALL -> t.Calls

\* C7 as stated: each of SLOAD, EXTCODESIZE, EXTCODECOPY, BALANCE,
\* EXTCODEHASH and CALL resolves to its entry in the fee table of the latest
\* upgrade active at the height.
C7_Original ==
    (gasCostReturned
       /\ args.op \in {SLOAD, EXTCODESIZE, EXTCODECOPY, BALANCE, EXTCODEHASH,
                       CALL}) =>
        ret.val = LatestTableEntry(args.op, args.blnum)

\* C7 amended: SLOAD, EXTCODESIZE, BALANCE, EXTCODEHASH and CALL resolve to
\* their entry in the fee table of the latest upgrade active at the height;
\* EXTCODECOPY is not resolved through the table and costs 0 at every height.
C7_VersionedLookup ==
    /\ (gasCostReturned
          /\ args.op \in {SLOAD, EXTCODESIZE, BALANCE, EXTCODEHASH, CALL}) =>
           ret.val = LatestTableEntry(args.op, args.blnum)
    /\ (gasCostReturned /\ args.op = EXTCODECOPY) => ret.val = 0

C7_Witness ==
    /\ gasCostReturned
    /\ args.op = EXTCODEHASH
    /\ args.blnum = ConstantinopleBlock
    /\ ret.val = 400

\* C8: SHL, SHR and SAR cost 0 at every height before the Constantinople
\* activation height and GasFastestStep (3) at every height at or after it.
C8_ShiftCost ==
    (gasCostReturned /\ args.op \in {SHL, SHR, SAR}) =>
        ret.val = (IF args.blnum < 7280000 THEN 0 ELSE 3)

C8_Witness ==
    /\ gasCostReturned
    /\ args.op = SAR
    /\ args.blnum = 7280000 - 1
    /\ ret.val = 0

\* C9: every identifier in PUSH1..PUSH32, DUP1..DUP16 or SWAP1..SWAP16 costs
\* GasFastestStep (3) at every height.
C9_RangeCost ==
    (gasCostReturned /\ args.op \in (96..127) \cup (128..143) \cup (144..159))
        => ret.val = 3

C9_Witness ==
    /\ gasCostReturned
    /\ args.op = SWAP16
    /\ args.blnum = 0
    /\ ret.val = 3

\* operations whose cost gasCost cannot resolve statically (12, 33 and 254
\* are undefined identifiers)
NonStaticizable ==
    {SHA3, EXP, MLOAD, SSTORE, CALLDATACOPY, CODECOPY, EXTCODECOPY,
     RETURNDATACOPY, 12, 33, 254}
        \cup (LOG0..LOG4)

\* C10 as stated: the result for an operation whose cost cannot be resolved
\* statically differs from the result for an operation whose cost is
\* legitimately zero (STOP, or a shift operation before Constantinople).
C10_Distinguishable ==
    (gasCostReturned /\ args.op \in NonStaticizable) =>
        /\ ret # [val |-> gasCost(STOP, args.blnum)]
        /\ ret # [val |-> gasCost(SHL, 0)]

-----------------------------------------------------------------------------
(* Specification of the dataPoint arithmetic: Init draws dp and prev, the   *)
(* actions apply Sub and then MilliSecondsPerMgas to its result.            *)

PointOps == {STOP, ADD, SHL, SHA3, SLOAD, 255}

PointHeights == {0, EIP150Block, ConstantinopleBlock}

PointCounts == {0, 1, 501, 502, Word \div 64, Word \div 2, Word - 1}

PointTimes == {0, 1, 7000, MaxDuration}

PointVals ==
    {dataPoint(o, h, c, t) :
        o \in PointOps, h \in PointHeights, c \in PointCounts, t \in PointTimes}

\* the datapoints an earlier snapshot can hold for the operation of dp
PrevVals(dp) ==
    {dataPoint(dp.op, h, c, t) :
        h \in {0, 1000000}, c \in PointCounts, t \in PointTimes}

InitPoint ==
    /\ data = << >>
    /\ out = Nil
    /\ \E dp \in PointVals :
         \E prev \in PrevVals(dp) \cup {Nil} :
            args = [fn |-> "Sub", dp |-> dp, prev |-> prev]
    /\ ret = Nil

CallSub ==
    /\ args # Nil
    /\ args.fn = "Sub"
    /\ ret = Nil
    /\ ret' = [fn |-> "Sub", val |-> Sub(args.dp, args.prev)]
    /\ UNCHANGED <<data, out, args>>

CallMilliSecondsPerMgas ==
    /\ ret # Nil
    /\ ret.fn = "Sub"
    /\ ret' = [fn |-> "MilliSecondsPerMgas", dp |-> ret.val,
               val |-> MilliSecondsPerMgas(ret.val)]
    /\ UNCHANGED <<data, out, args>>

CallMGasPerSec ==
    /\ ret # Nil
    /\ ret.fn = "Sub"
    /\ ret' = [fn |-> "mGasPerSec", dp |-> ret.val,
               val |-> mGasPerSec(ret.val)]
    /\ UNCHANGED <<data, out, args>>

NextPoint == CallSub \/ CallMilliSecondsPerMgas \/ CallMGasPerSec

SpecPoint == InitPoint /\ [][NextPoint]_vars

SubReturned == args # Nil /\ args.fn = "Sub" /\ ret # Nil /\ ret.fn = "Sub"

MilliSecondsPerMgasReturned == ret # Nil /\ ret.fn = "MilliSecondsPerMgas"

mGasPerSecReturned == ret # Nil /\ ret.fn = "mGasPerSec"

-----------------------------------------------------------------------------
(* Claims about Sub and MilliSecondsPerMgas, checked under SpecPoint *)

\* C1: when neither counter of the later datapoint is below the earlier
\* one's, Sub yields count = later.count - earlier.count and execTime =
\* later.execTime - earlier.execTime and keeps the later datapoint's block
\* number and operation.
C1_SubDelta ==
    (SubReturned
       /\ args.prev # Nil
       /\ args.dp.count >= args.prev.count
       /\ args.dp.execTime >= args.prev.execTime) =>
        /\ ret.val.count = args.dp.count - args.prev.count
        /\ ret.val.execTime = args.dp.execTime - args.prev.execTime
        /\ ret.val.blockNumber = args.dp.blockNumber
        /\ ret.val.op = args.dp.op

C1_Witness ==
    /\ SubReturned
    /\ args.prev # Nil
    /\ args.dp.count = 501
    /\ args.prev.count = 1
    /\ args.dp.execTime = 7000
    /\ args.prev.execTime = 1
    /\ args.dp.blockNumber # args.prev.blockNumber
    /\ ret.val.count = 500
    /\ ret.val.execTime = 6999

\* the deltas Sub returns for the pairs of datapoints of an operation at a
\* height whose later count is not below the earlier one (no restart)
NonRestartDeltas(op, blockNumber) ==
    {Sub(pr[1], pr[2]) :
        pr \in {q \in UNION {{<<d, p>> : p \in PrevVals(d)} :
                               d \in {dataPoint(op, blockNumber, c, t) :
                                        c \in PointCounts, t \in PointTimes}} :
                  q[1].count >= q[2].count}}

\* C2 as stated: when the later count is smaller than the earlier one, the
\* delta Sub returns is identifiable as anomalous: it is not a value that Sub
\* also returns for a pair of datapoints without a restart.
C2_RestartFlagged ==
    (SubReturned /\ args.prev # Nil /\ args.dp.count < args.prev.count) =>
        ret.val \notin NonRestartDeltas(ret.val.op, ret.val.blockNumber)

\* C3: for a datapoint whose count is 0 or whose gas cost is 0,
\* MilliSecondsPerMgas returns exactly 0 (the float64(0) of the guard, not
\* the result of a division), whatever the execTime.
C3_ZeroGasGuard ==
    (MilliSecondsPerMgasReturned
       /\ (ret.dp.count = 0 \/ gasCost(ret.dp.op, ret.dp.blockNumber) = 0)) =>
        ret.val = [num |-> 0, den |-> 1]

C3_Witness ==
    /\ MilliSecondsPerMgasReturned
    /\ ret.dp.op = SLOAD
    /\ ret.dp.count = 0
    /\ ret.dp.execTime = 6999
    /\ ret.val = [num |-> 0, den |-> 1]

\* C16 as stated: for a delta datapoint with execTime = 0, mGasPerSec does
\* not perform the division: its result is not the quotient of a division by
\* zero (an infinity or a NaN).
C16_ZeroTimeGuard ==
    (mGasPerSecReturned /\ ret.dp.execTime = 0) => ret.val.den # 0

\* totalGas of dp is the arithmetic product dp.count * cost (stated without
\* forming the product: the quotient by the cost gives the count back)
ExactProduct(dp) ==
    LET cost == gasCost(dp.op, dp.blockNumber)
    IN  IF cost = 0
        THEN totalGas(dp) = 0
        ELSE totalGas(dp) \div cost = dp.count /\ totalGas(dp) % cost = 0

\* C17 as stated: for every delta datapoint, totalGas is the arithmetic
\* product of the count delta and the cost resolved at the delta's block
\* height (the height of the later snapshot), never a wrapped-around value.
C17_TotalGasExact ==
    MilliSecondsPerMgasReturned =>
        /\ ExactProduct(ret.dp)
        /\ args.prev # Nil => ret.dp.blockNumber = args.dp.blockNumber

\* C17 on the deltas whose count times the largest cost fits the word: there
\* totalGas is the exact product.
C17_SmallCountsExact ==
    (MilliSecondsPerMgasReturned /\ ret.dp.count <= (Word - 1) \div 700) =>
        ExactProduct(ret.dp)

\* C24 as stated: MilliSecondsPerMgas never divides by zero: whenever
\* totalGas is non-zero, the divisor 1000 * totalGas computed in unsigned
\* machine arithmetic is non-zero too, and the result is neither infinite
\* nor NaN.
C24_NoDivisionByZero ==
    MilliSecondsPerMgasReturned =>
        /\ totalGas(ret.dp) # 0 => mulU64(totalGas(ret.dp), 1000) # 0
        /\ ret.val.den # 0

\* C24 where the product 1000 * totalGas fits the word: there the divisor
\* is non-zero and the result is finite.
C24_SmallTotalsFinite ==
    (MilliSecondsPerMgasReturned /\ totalGas(ret.dp) <= (Word - 1) \div 1000)
        => ret.val.den # 0

-----------------------------------------------------------------------------
(* Specification of the program: the driver collects the snapshots, then    *)
(* calls series and barchart over the collected dataset, one call at a      *)
(* time.                                                                    *)

\* number of checkpoint heights that snapshots are collected for
MaxHeights == 3

Heights == {k * 1000000 : k \in 1..MaxHeights}

\* a JSON array of n counter records with the given records of ADD and SLOAD
\* and empty records elsewhere
jsonArray(n, add, sload) ==
    [valid |-> TRUE, len |-> n, bg |-> opMeter(0, 0),
     vary |-> (ADD :> add) @@ (SLOAD :> sload)]

\* a JSON array of 256 counter records with the given records of SHA3 and
\* MLOAD (two operations that gasCost resolves to 0) and empty records
\* elsewhere
jsonArrayZeroCost(sha3, mload) ==
    [valid |-> TRUE, len |-> 256, bg |-> opMeter(0, 0),
     vary |-> (SHA3 :> sha3) @@ (MLOAD :> mload)]

\* the inputs of collect: bytes that do not decode, five full arrays and an
\* array that ends before the record of SLOAD
Inputs ==
    {[valid |-> FALSE, len |-> 0, bg |-> opMeter(0, 0), vary |-> << >>],
     jsonArray(256, opMeter(1, 5), opMeter(1, 10)),
     jsonArray(256, opMeter(1000001, 40), opMeter(501, 20)),
     jsonArray(256, opMeter(1000001, 40), opMeter(502, 30)),
     jsonArray(256, opMeter(2000001, 60), opMeter(1000001, 40)),
     jsonArrayZeroCost(opMeter(1000001, 70), opMeter(1000002, 30)),
     jsonArray(SLOAD, opMeter(1000001, 40), opMeter(502, 30))}

SeriesOps == {STOP, ADD, SLOAD}

FromBlocks == {0, 1500000, 2000000}

YFuncs == {"MilliSecondsPerMgas", "count"}

Windows == {<<b * 1000000, (b + 1) * 1000000>> : b \in 0..MaxHeights}
               \cup {<<1000000, 3000000>>, <<1500000, 2000000>>}

\* the driver has collected the files and is between two calls of series or
\* barchart
Idle == [fn |-> "idle"]

Init ==
    /\ data = << >>
    /\ out = Nil
    /\ args = Nil
    /\ ret = Nil

\* stats.collect(blnum, data), called by the driver for every file before
\* any series or chart is computed
Collect(blnum, input) ==
    /\ out = Nil
    /\ data' = collect(data, blnum, input).data
    /\ UNCHANGED <<out, args, ret>>

\* mutant: series drops the snapshots below fromBlock from the dataset
Series_prunes(op, fromBlock, fname) ==
    /\ out = Idle
    /\ out' = [fn |-> "series", op |-> op, fromBlock |-> fromBlock,
               yFunc |-> fname] @@ series(data, op, fromBlock, fname)
    /\ data' = [h \in {k \in DOMAIN data : k >= fromBlock} |-> data[h]]
    /\ UNCHANGED <<args, ret>>

\* stats.series(op, fromBlock, yFunc)
Series(op, fromBlock, fname) ==
    /\ out = Idle
    /\ out' = [fn |-> "series", op |-> op, fromBlock |-> fromBlock,
               yFunc |-> fname] @@ series(data, op, fromBlock, fname)
    /\ UNCHANGED <<data, args, ret>>

\* barchart(filename, runinfo, stat, start, end)
Barchart(start, end) ==
    /\ out = Idle
    /\ LET st == barchartLoop(lookup(data, start), lookup(data, end))
       IN  IF st.err
           THEN out' = [fn |-> "barchart", start |-> start, end |-> end,
                        err |-> TRUE, vals |-> << >>, modDps |-> << >>]
           ELSE \E sorted \in sortedOrders(st.vals) :
                   out' = [fn |-> "barchart", start |-> start, end |-> end,
                           err |-> FALSE, vals |-> top25(sorted),
                           modDps |-> st.modDps]
    /\ UNCHANGED <<data, args, ret>>

\* the loop of barcharts that calls barchart for the windows 0..6
BarchartWindows ==
    /\ out = Idle
    /\ out' = [fn |-> "barcharts", charts |-> barchartsLoop(data, 0)]
    /\ UNCHANGED <<data, args, ret>>

\* the driver goes on: the last file has been collected, or the call of
\* series or barchart has returned
Return ==
    /\ out # Idle
    /\ out' = Idle
    /\ UNCHANGED <<data, args, ret>>

Next ==
    \/ \E blnum \in Heights : \E input \in Inputs : Collect(blnum, input)
    \/ \E op \in SeriesOps : \E fromBlock \in FromBlocks :
          \E fname \in YFuncs : Series(op, fromBlock, fname)
    \/ \E w \in Windows : Barchart(w[1], w[2])
    \/ BarchartWindows
    \/ Return

Spec == Init /\ [][Next]_vars

-----------------------------------------------------------------------------
(* Claims about series and barchart, checked under Spec *)

SeriesReturned == out \notin {Nil, Idle} /\ out.fn = "series"

BarchartReturned == out \notin {Nil, Idle} /\ out.fn = "barchart"

\* h1 and h2 are consecutive among the stored heights that series walks
Consecutive(h1, h2, fromBlock) ==
    /\ h1 \in DOMAIN data
    /\ h2 \in DOMAIN data
    /\ fromBlock <= h1
    /\ h1 < h2
    /\ ~\E h \in DOMAIN data : h1 < h /\ h < h2

HasPoint(h) == \E k \in 1..Len(out.xseries) : out.xseries[k] = float64(h)

\* C4 as stated: for every pair of consecutive heights walked, series has a
\* point for the later height if and only if the signed difference
\* later.count - earlier.count exceeds 500.
C4_ThresholdIff ==
    SeriesReturned =>
        \A h1, h2 \in DOMAIN data :
            Consecutive(h1, h2, out.fromBlock) =>
                (HasPoint(h2) <=>
                    data[h2][out.op].count - data[h1][out.op].count > 500)

\* C4 on the intervals without restart (the later count is not below the
\* earlier one): there the point is present exactly above the threshold.
C4_NoRestartIff ==
    SeriesReturned =>
        \A h1, h2 \in DOMAIN data :
            (Consecutive(h1, h2, out.fromBlock)
               /\ data[h2][out.op].count >= data[h1][out.op].count) =>
                (HasPoint(h2) <=>
                    data[h2][out.op].count - data[h1][out.op].count > 500)

\* C5: when the earlier datapoint is absent (barchart's start height is not
\* in the dataset, or Sub is given nil), the delta has the count, the
\* execTime and the block number of the later snapshot's datapoint.
C5_FirstInterval ==
    (BarchartReturned /\ ~out.err /\ out.start \notin DOMAIN data) =>
        /\ \A k \in 1..Len(out.modDps) :
              LET modDp == out.modDps[k]
                  raw == data[out.end][modDp.op]
              IN  /\ modDp.count = raw.count
                  /\ modDp.execTime = raw.execTime
                  /\ modDp.blockNumber = raw.blockNumber
        /\ \A op \in OpCodes :
              Sub(data[out.end][op], Nil) = data[out.end][op]

C5_Witness ==
    /\ BarchartReturned
    /\ ~out.err
    /\ out.start \notin DOMAIN data
    /\ Len(out.modDps) = 2
    /\ out.modDps[2].op = SLOAD
    /\ out.modDps[2].count = 1000001
    /\ out.modDps[2].execTime = 40

\* C11 as stated: the values barchart outputs are in descending order of
\* metric value, and values with equal metric are in ascending order of
\* operation identifier, so that the output sequence is determined by the
\* dataset and the window.
C11_SortedWithTieBreak ==
    (BarchartReturned /\ ~out.err) =>
        \A i, j \in 1..Len(out.vals) :
            i < j =>
                /\ ~fgreater(out.vals[j].Value, out.vals[i].Value)
                /\ ~fgreater(out.vals[i].Value, out.vals[j].Value) =>
                       out.vals[i].Label.op < out.vals[j].Label.op

\* C11 without the tie-break: no value of the output is greater than a value
\* before it.
C11_Descending ==
    (BarchartReturned /\ ~out.err) =>
        \A i, j \in 1..Len(out.vals) :
            i < j => ~fgreater(out.vals[j].Value, out.vals[i].Value)

\* barchart has appended a value for op (before the values are ranked)
Ranked(op) == \E k \in 1..Len(out.modDps) : out.modDps[k].op = op

\* the count of op in the snapshot at barchart's start height, 0 when there
\* is no snapshot at that height
StartCount(op) ==
    IF out.start \in DOMAIN data THEN data[out.start][op].count ELSE 0

\* C12 as stated: an operation is removed before ranking exactly when the
\* signed difference end.count - start.count is lower than the number of
\* blocks of the window, end height - start height.
C12_ExclusionIff ==
    (BarchartReturned /\ ~out.err) =>
        \A op \in 0..254 :
            ~Ranked(op) <=>
                data[out.end][op].count - StartCount(op) < out.end - out.start

\* C12 on the windows whose start height is in the dataset and on the
\* operations whose count did not decrease: there the operation is removed
\* exactly when it was executed less than once per block.
C12_NoRestartIff ==
    (BarchartReturned /\ ~out.err /\ out.start \in DOMAIN data) =>
        \A op \in 0..254 :
            data[out.end][op].count >= StartCount(op) =>
                (~Ranked(op) <=>
                    data[out.end][op].count - StartCount(op)
                        < out.end - out.start)

\* C13: when the end height of barchart is not in the dataset, barchart
\* returns an error and produces no chart values for the window.
C13_MissingEndIsError ==
    (BarchartReturned /\ out.end \notin DOMAIN data) =>
        /\ out.err
        /\ out.vals = << >>
        /\ out.modDps = << >>

C13_Witness ==
    /\ BarchartReturned
    /\ out.start \in DOMAIN data
    /\ data[out.start][ADD].count = 2000001
    /\ out.end \notin DOMAIN data
    /\ out.err
    /\ out.vals = << >>

\* C19: the x values returned by series are strictly increasing, each one
\* is a height of the dataset, and xseries and yseries have the same length.
C19_SeriesOrdered ==
    SeriesReturned =>
        /\ Len(out.xseries) = Len(out.yseries)
        /\ \A k \in 1..Len(out.xseries) :
              \E h \in DOMAIN data : out.xseries[k] = float64(h)
        /\ \A i, j \in 1..Len(out.xseries) :
              i < j => fgreater(out.xseries[j], out.xseries[i])

C19_Witness ==
    /\ SeriesReturned
    /\ out.op = ADD
    /\ out.fromBlock = 0
    /\ out.xseries = <<float64(2000000), float64(3000000)>>
    /\ Len(out.yseries) = 2

\* C20: series and barchart leave the dataset unchanged (the heights and
\* every stored datapoint are after the call what they were before it), so
\* that computing the series, or the values of the chart, again on the
\* dataset after the call gives what the call returned.
C20_ReadOnly ==
    /\ [][(SeriesReturned' \/ BarchartReturned') => data' = data]_vars
    /\ [](SeriesReturned =>
            series(data, out.op, out.fromBlock, out.yFunc)
                = [xseries |-> out.xseries, yseries |-> out.yseries])
    /\ [](BarchartReturned =>
            LET st == barchartLoop(lookup(data, out.start),
                                   lookup(data, out.end))
            IN  st.err = out.err /\ st.modDps = out.modDps)

C20_Witness ==
    /\ SeriesReturned
    /\ out.op = SLOAD
    /\ out.fromBlock = 2000000
    /\ DOMAIN data = Heights
    /\ data[1000000][SLOAD].count = 1
    /\ out.xseries = <<float64(3000000)>>

\* the heights of the dataset that series walks: those >= fromBlock
Walked == {h \in DOMAIN data : h >= out.fromBlock}

\* the walked height immediately before h
Preceding(h) ==
    CHOOSE g \in Walked : g < h /\ \A f \in Walked : f < h => f <= g

\* C25: series pairs consecutive heights among the heights >= fromBlock: the
\* smallest of them is the baseline and has no point, no point is at a
\* height below fromBlock, the delta of each point is taken between its
\* height and the walked height immediately before it, and there are at most
\* (number of heights >= fromBlock) - 1 points.
C25_PairsFromBaseline ==
    SeriesReturned =>
        /\ \A k \in 1..Len(out.xseries) :
              \E h \in Walked :
                 /\ out.xseries[k] = float64(h)
                 /\ \E g \in Walked : g < h
                 /\ out.yseries[k] =
                        yFunc(out.yFunc,
                              Sub(data[h][out.op], data[Preceding(h)][out.op]))
        /\ Len(out.xseries) = 0 \/ Len(out.xseries) <= Cardinality(Walked) - 1

C25_Witness ==
    /\ SeriesReturned
    /\ out.op = ADD
    /\ out.fromBlock = 1500000
    /\ out.yFunc = "count"
    /\ DOMAIN data = Heights
    /\ data[1000000][ADD].count = 1
    /\ data[2000000][ADD].count = 1000001
    /\ data[3000000][ADD].count = 2000001
    /\ out.xseries = <<float64(3000000)>>
    /\ out.yseries = <<float64(1000000)>>

BarchartWindowsReturned == out \notin {Nil, Idle} /\ out.fn = "barcharts"

Charted(barch) == \E k \in 1..Len(out.charts) : out.charts[k] = barch

\* C18 as stated: in barcharts, every window 0..6 whose end height is in the
\* dataset is computed, whatever happened to the windows before it.
C18_WindowsIndependent ==
    BarchartWindowsReturned =>
        \A barch \in 0..6 :
            ((barch + 1) * 1000000 \in DOMAIN data) => Charted(barch)

\* what barcharts does compute: the windows before the first window whose
\* end height is not in the dataset.
C18_StopsAtFirstError ==
    BarchartWindowsReturned =>
        \A barch \in 0..6 :
            Charted(barch) <=>
                \A b \in 0..barch : (b + 1) * 1000000 \in DOMAIN data


-----------------------------------------------------------------------------
(* Specification of collect: the calls of stats.collect with their input,   *)
(* the dataset before the call and the error returned.                      *)

\* the inputs of collect: bytes that do not decode, a full array and the
\* same array cut before the record of SLOAD
CollectInputs ==
    {[valid |-> FALSE, len |-> 0, bg |-> opMeter(0, 0), vary |-> << >>],
     jsonArray(256, opMeter(1000001, 40), opMeter(502, 30)),
     jsonArray(SLOAD, opMeter(1000001, 40), opMeter(502, 30))}

InitCollect ==
    /\ data = << >>
    /\ out = Nil
    /\ args = Nil
    /\ ret = Nil

CallCollect(blnum, input) ==
    /\ args' = [fn |-> "collect", blnum |-> blnum, input |-> input,
                before |-> data]
    /\ data' = collect(data, blnum, input).data
    /\ ret' = [err |-> collect(data, blnum, input).err]
    /\ UNCHANGED out

NextCollect ==
    \E blnum \in Heights : \E input \in CollectInputs : CallCollect(blnum, input)

SpecCollect == InitCollect /\ [][NextCollect]_vars

CollectReturned == args # Nil /\ args.fn = "collect" /\ ret # Nil

-----------------------------------------------------------------------------
(* Claims about collect, checked under SpecCollect *)

\* C23: after any sequence of collect calls, every stored snapshot has a
\* datapoint for each of the 256 operations, each datapoint carries its own
\* operation identifier and the height the snapshot is stored under, and no
\* lookup of an operation in a stored snapshot gives nil.
C23_SnapshotsComplete ==
    \A h \in DOMAIN data :
        /\ DOMAIN data[h] = 0..255
        /\ \A op \in 0..255 :
              /\ data[h][op].op = op
              /\ data[h][op].blockNumber = h
              /\ pointOf(lookup(data, h), op) # Nil

C23_Witness ==
    /\ CollectReturned
    /\ ret.err
    /\ DOMAIN data = Heights
    /\ data[1000000][SLOAD].count = 0
    /\ data[1000000][ADD].count = 1000001
    /\ data[2000000][SLOAD].count = 502
    /\ data[1000000][255].blockNumber = 1000000

\* C14 as stated: given a JSON array of fewer than 256 counter records,
\* collect returns a decode error and stores no snapshot; a snapshot is
\* stored only when the input held all 256 records.
C14_ShortInputRejected ==
    /\ (CollectReturned /\ args.input.valid /\ args.input.len < 256) =>
           (ret.err /\ data = args.before)
    /\ (CollectReturned /\ data # args.before) => args.input.len >= 256

\* C15: when the input of collect does not decode, collect returns an error
\* and the dataset is as it was before the call: no entry is created for
\* the height and the snapshots stored before are kept.
C15_DecodeErrorKeepsDataset ==
    (CollectReturned /\ Unmarshal(args.input) = Nil) =>
        /\ ret.err
        /\ data = args.before
        /\ (args.blnum \in DOMAIN data) = (args.blnum \in DOMAIN args.before)

C15_Witness ==
    /\ CollectReturned
    /\ ~args.input.valid
    /\ ret.err
    /\ args.blnum \in DOMAIN args.before
    /\ DOMAIN args.before = Heights
    /\ data[args.blnum][ADD].count = 1000001

-----------------------------------------------------------------------------
(* Specification of barchart over snapshots with many operations: the       *)
(* driver collects the snapshots and calls barchart.                        *)

\* a full array with records for the 26 operations 96..121 (PUSH1..PUSH26,
\* all of cost GasFastestStep; the times differ, but for 96 and 97) and for
\* the identifier 255
manyOps ==
    [valid |-> TRUE, len |-> 256, bg |-> opMeter(0, 0),
     vary |-> [o \in (96..121) \cup {255} |->
                 IF o = 255 THEN opMeter(1000001, 50)
                 ELSE opMeter(1000001, IF o = 97 THEN 96 ELSE o)]]

\* a full array with records for ADD and for the identifier 255
fewOps ==
    [valid |-> TRUE, len |-> 256, bg |-> opMeter(0, 0),
     vary |-> (ADD :> opMeter(1000001, 40)) @@ (255 :> opMeter(1000001, 50))]

ChartInputs == {manyOps, fewOps}

NextChart ==
    \/ \E blnum \in Heights : \E input \in ChartInputs : Collect(blnum, input)
    \/ \E w \in Windows : Barchart(w[1], w[2])
    \/ Return

SpecChart == Init /\ [][NextChart]_vars

-----------------------------------------------------------------------------
(* Claims about the operations barchart ranks, checked under SpecChart *)

\* op passes the exclusion rules of barchart over the window of the call
PassesExclusion(op) ==
    appends(lookup(data, out.start), lookup(data, out.end), op)

\* C21 as stated: every operation 0..255, the identifier 255 included, that
\* passes the exclusion rules contributes a value to the ranking.
C21_AllOperations ==
    (BarchartReturned /\ ~out.err) =>
        \A op \in 0..255 : PassesExclusion(op) => Ranked(op)

\* C21 on the identifiers 0..254: those contribute a value exactly when they
\* pass the exclusion rules, and the identifier 255 never does.
C21_VisitedOperations ==
    (BarchartReturned /\ ~out.err) =>
        /\ \A op \in 0..254 : PassesExclusion(op) <=> Ranked(op)
        /\ ~Ranked(255)

\* the float64 comparison a >= b (false when either side is NaN)
fgeq(a, b) == ~isNaN(a) /\ ~isNaN(b) /\ ~fgreater(b, a)

\* the metric value of op over the window of the call
CandidateValue(op) ==
    MilliSecondsPerMgas(Sub(pointOf(lookup(data, out.end), op),
                            dpStartOf(lookup(data, out.start), op)))

\* op has a value in the output of barchart
Output(op) == \E i \in 1..Len(out.vals) : out.vals[i].Label.op = op

\* C22 as stated: barchart outputs min(25, k) values, k being the number of
\* operations that pass the exclusion rules, and every value it outputs is
\* greater than or equal to every candidate value it drops.
C22_TopOfCandidates ==
    (BarchartReturned /\ ~out.err) =>
        LET candidates == {op \in 0..255 : PassesExclusion(op)}
            k == Cardinality(candidates)
        IN  /\ Len(out.vals) = (IF k < 25 THEN k ELSE 25)
            /\ \A op \in candidates :
                  ~Output(op) =>
                      \A i \in 1..Len(out.vals) :
                          fgeq(out.vals[i].Value, CandidateValue(op))

\* C22 with the candidates barchart has computed (the operations 0..254 that
\* pass the exclusion rules): the output has min(25, number of candidates)
\* values, each one the value of a candidate, and none is below a dropped one.
C22_TopOfVisited ==
    (BarchartReturned /\ ~out.err) =>
        LET k == Len(out.modDps)
        IN  /\ Len(out.vals) = (IF k < 25 THEN k ELSE 25)
            /\ \A i \in 1..Len(out.vals) :
                  /\ Ranked(out.vals[i].Label.op)
                  /\ out.vals[i].Value = CandidateValue(out.vals[i].Label.op)
            /\ \A j \in 1..k :
                  ~Output(out.modDps[j].op) =>
                      \A i \in 1..Len(out.vals) :
                          fgeq(out.vals[i].Value,
                               CandidateValue(out.modDps[j].op))

====
